---- MODULE Spec2Model ----
(***************************************************************************)
(* Model of the FC-site registration workflow of ff_app.py                  *)
(* (run_fc_registration and the part of main() that calls it), in its two   *)
(* variants src/ff_app.py (variant 1) and src/ff_app/ff_app.py (variant 2). *)
(*                                                                          *)
(* The workflow is one sequential thread driving a remote browser.  The     *)
(* remote page is the environment: it renders asynchronously, so every      *)
(* observation the workflow makes of it is a nondeterministic input.        *)
(* `trace` is the log of the driver calls the workflow has issued.          *)
(***************************************************************************)
EXTENDS Integers, Sequences, FiniteSets, TLC

\* ------------------------------------------------------------------ bounds
\* Polls a WebDriverWait makes before its timeout elapses (40 s at the
\* default 0.5 s poll interval in the program; a small stand-in here).
MaxPolls == 2
\* Length of metadata["sub_files"].
MaxSub == 2
\* Seconds the host's clock runs through while two operators work.
MaxClock == 2
\* Image files in the Drive folder.
MaxFiles == 2
\* Rows of users.csv.
MaxUsers == 2

\* ------------------------------------------------------------ value domains
None == "None"

Names == {"compressed_a.jpg", "compressed_b.jpg"}

AlertText == "geocode failed"

CoordValue == "35.0"

\* The listings os.listdir(session_dir) can return.
DirListings ==
    { {"metadata.csv", "compressed_a.jpg"},
      {"metadata.csv", "compressed_a.jpg", "compressed_b.jpg"},
      {"metadata.csv", "a.jpg", "compressed_a.jpg.tmp"} }

SeqsUpTo(S, n) == UNION { [1..k -> S] : k \in 0..n }

\* The option values a find_elements on the "activated" dropdown can return.
OptionLists == { <<>>, <<"1">>, <<"1", "0">>, <<"0", "1">> }

\* The labels (box.text) of the picker boxes a find_elements can return.
BoxLists == { <<>>, <<"compressed_a.jpg">>, <<"compressed_b.jpg">>,
              <<"compressed_b.jpg", "compressed_a.jpg">> }

\* The checkbox values a find_elements on the category modal can return.
CheckboxLists == { <<>>, <<"7">>, <<"7", "133">>, <<"133", "7">> }

VARIABLES
    variant,      \* 1: src/ff_app.py, 2: src/ff_app/ff_app.py
    headless,     \* the headless argument
    mock,         \* "immediate": the remote satisfies every wait at once
    metadata,     \* the metadata argument (the Registration Record)
    dirFiles,     \* os.listdir(session_dir)
    pc,           \* position of the workflow
    wf,           \* "Idle", "Running", "Completed", "Failed"
    reason,       \* the exception that ended the run, when Failed
    trace,        \* driver calls issued so far, in order
    polls,        \* polls the current wait has already made in vain
    subIdx,       \* index into sub_files of the cycle in progress
    driver,       \* TRUE once webdriver.Chrome(...) has returned
    sessions,     \* browser sessions created
    quits,        \* driver.quit() calls
    callerMsg,    \* what main() showed after the call
    alert,        \* text of the open browser alert, or None
    alertAt,      \* step during which an alert appeared (0: none appeared)
    uploadList,   \* the remote "#files li.media" entries
    coords,       \* the form's lat / lng fields
    geoPending,   \* coordinate fields the remote geocoder has yet to fill
    coordWrites,  \* times each coordinate field was populated
    shown,        \* messages run_fc_registration has shown the operator
    cancelled,    \* the operator has asked for the run to be aborted
    host,         \* the host's clock, output directories and Chrome ports
    build,        \* main()'s loop that compresses the images into session_dir
    pair,         \* the two variants of run_fc_registration, side by side
    submit,       \* main()'s submit handler around the Drive upload
    comp,         \* one call of compress_image
    auth          \* st.session_state under login(), and the users table

inputVars == <<variant, headless, mock, metadata, dirFiles>>
sessVars == <<driver, sessions, quits>>
remoteVars == <<alert, alertAt, uploadList, coords, geoPending, coordWrites>>
vars == <<variant, headless, mock, metadata, dirFiles, pc, wf, reason, trace,
          polls, subIdx, driver, sessions, quits, callerMsg, alert,
          alertAt, uploadList, coords, geoPending, coordWrites, shown,
          cancelled, host, build, pair, submit, comp, auth>>

\* What lies outside the single run of run_fc_registration.
outerVars == <<host, build, pair, submit, comp, auth>>

\* ------------------------------------------------------------------ helpers
NoReason == [type |-> "", detail |-> "", step |-> 0]

Call(op, loc, arg, s) == [op |-> op, loc |-> loc, arg |-> arg, step |-> s]

\* What a poll of a wait condition can observe.
Observations == IF mock = "immediate" THEN {TRUE} ELSE BOOLEAN

\* The locators of `calls` that find_element may fail to locate.
Missable(calls) ==
    IF mock = "immediate" THEN {}
    ELSE { calls[i].loc : i \in { j \in DOMAIN calls : calls[j].op = "find" } }

\* Index of the first find_element of `calls` that fails when `missing` is
\* absent from the page; 0 when none fails.
FirstMissing(calls, missing) ==
    LET hits == { i \in DOMAIN calls :
                    calls[i].op = "find" /\ calls[i].loc = missing }
    IN IF hits = {} THEN 0
       ELSE CHOOSE i \in hits : \A j \in hits : i <= j

\* The workflow goes on to `to` having issued `calls`; falling off the end of
\* the try block ("finally") is the normal return.
Go(to, calls) ==
    /\ pc' = to
    /\ trace' = trace \o calls
    /\ polls' = 0
    /\ wf' = IF to = "finally" THEN "Completed" ELSE wf
    /\ UNCHANGED <<reason, shown>>

\* str(e): selenium's exceptions print "Message: " and their message.
Str(r) ==
    IF r.type \in {"NoSuchElementException", "TimeoutException",
                   "UnexpectedAlertPresentException", "WebDriverException",
                   "InvalidArgumentException"}
    THEN "Message: " \o r.detail
    ELSE r.detail

\* The exception replaced by a bare one: no message, no traceback into the
\* step.
Raise_NoContext(type, detail, s, calls) ==
    /\ pc' = "finally"
    /\ wf' = "Failed"
    /\ reason' = [type |-> type, detail |-> "", step |-> 0]
    /\ trace' = trace \o calls
    /\ polls' = 0
    /\ shown' = IF variant = 1
                THEN Append(shown, "error in registration: ")
                ELSE shown

\* An exception leaves the try block: src/ff_app.py:339-341 (shown to the
\* operator with st.error, then re-raised), src/ff_app/ff_app.py:484-487
\* (written to the log only, then re-raised).  `step` is the statement the
\* exception's traceback points at.
Raise(type, detail, s, calls) ==
    /\ pc' = "finally"
    /\ wf' = "Failed"
    /\ reason' = [type |-> type, detail |-> detail, step |-> s]
    /\ trace' = trace \o calls
    /\ polls' = 0
    /\ shown' = IF variant = 1
                THEN Append(shown, "error in registration: " \o
                              Str([type |-> type, detail |-> detail]))
                ELSE shown

\* A straight-line run of driver calls between two waits: it stops at the
\* first find_element that raises NoSuchElementException.
Exec(from, to, calls, s) ==
    /\ pc = from
    /\ alert = None
    /\ \E missing \in Missable(calls) \cup {None} :
         LET k == FirstMissing(calls, missing)
         IN IF k = 0
            THEN Go(to, calls)
            ELSE Raise("NoSuchElementException", missing, s,
                       SubSeq(calls, 1, k - 1))

\* A wait that gives up silently: after the timeout the workflow goes on.
Until_PassesOnTimeout(from, to, loc, s, holds) ==
    /\ pc = from
    /\ IF polls < MaxPolls
       THEN /\ alert = None
            /\ IF holds
               THEN Go(to, <<Call("wait", loc, "", s)>>)
               ELSE /\ polls' = polls + 1
                    /\ UNCHANGED <<pc, wf, reason, trace, shown>>
       ELSE Go(to, <<>>)

\* A wait whose timeout makes the workflow start over from the login page.
Until_RetryFromLogin(from, to, loc, s, holds) ==
    /\ pc = from
    /\ IF polls < MaxPolls
       THEN /\ alert = None
            /\ IF holds
               THEN Go(to, <<Call("wait", loc, "", s)>>)
               ELSE /\ polls' = polls + 1
                    /\ UNCHANGED <<pc, wf, reason, trace, shown>>
       ELSE Go("auth", <<>>)

\* wait.until(condition on loc): WebDriverWait evaluates the condition (a
\* driver command), returns when it is observed true, and otherwise sleeps
\* and polls again; once the timeout has elapsed it raises TimeoutException
\* (with an empty message) without issuing another driver command.
Until(from, to, loc, s, holds) ==
    /\ pc = from
    /\ IF polls < MaxPolls
       THEN /\ alert = None
            /\ IF holds
               THEN Go(to, <<Call("wait", loc, "", s)>>)
               ELSE /\ polls' = polls + 1
                    /\ UNCHANGED <<pc, wf, reason, trace, shown>>
       ELSE Raise("TimeoutException", "", s, <<>>)

\* A wait whose condition is the presence / visibility / clickability of an
\* element: the page decides.
WaitFor(from, to, loc, s) ==
    \E seen \in Observations : Until(from, to, loc, s, seen)

\* ------------------------------------------------------------ file names
StartsWith(s, p) == Len(s) >= Len(p) /\ SubSeq(s, 1, Len(p)) = p

EndsWith(s, p) ==
    Len(s) >= Len(p) /\ SubSeq(s, Len(s) - Len(p) + 1, Len(s)) = p

\* sub in s (Python's substring test on str).
Contains(s, sub) ==
    \E i \in 1..(Len(s) - Len(sub) + 1) : SubSeq(s, i, i + Len(sub) - 1) = sub

LowerChar(c) ==
    CASE c = "J" -> "j" [] c = "P" -> "p" [] c = "G" -> "g"
      [] c = "E" -> "e" [] c = "N" -> "n" [] OTHER -> c

RECURSIVE LowerFrom(_, _)
LowerFrom(s, i) ==
    IF i > Len(s) THEN ""
    ELSE LowerChar(SubSeq(s, i, i)) \o LowerFrom(s, i + 1)

\* str.lower()
Lower(s) == LowerFrom(s, 1)

\* The comprehension that selects the files to upload.
Paths(listing) ==
    { fn \in listing :
        /\ StartsWith(fn, "compressed_")
        /\ \E ext \in {".jpg", ".jpeg", ".png"} : EndsWith(Lower(fn), ext) }

\* Every file of session_dir counted, metadata.csv included.
expected_count_Listing == Cardinality(dirFiles)

\* expected_count = len(paths)
expected_count == Cardinality(Paths(dirFiles))

\* Every value taken as set, None included.
Truthy_Always(x) == TRUE

\* Python truthiness of an optional string (None and "" are falsy).
Truthy(x) == x # None /\ x # ""

\* --------------------------------------------------------- field contents
\* What a text field of the remote page may hold before the workflow
\* touches it.
StaleContents == {"", "old"}

\* The largest index of a non-empty set of trace indices.
Last(S) == CHOOSE i \in S : \A j \in S : j <= i

\* The texts of the send_keys calls at the indices S, in trace order.
RECURSIVE Typed(_)
Typed(S) ==
    IF S = {} THEN ""
    ELSE Typed(S \ {Last(S)}) \o trace[Last(S)].arg

\* The content of `field` after the first n calls of the trace, when it held
\* c0 at first: element.clear() empties the field, element.send_keys(text)
\* types text after what the field holds.
ContentAfter(field, c0, n) ==
    LET clears == { i \in 1..n : trace[i].loc = field /\ trace[i].op = "clear" }
        k == IF clears = {} THEN 0 ELSE Last(clears)
        keys == { i \in (k + 1)..n :
                    trace[i].loc = field /\ trace[i].op = "send_keys" }
    IN (IF k = 0 THEN c0 ELSE "") \o Typed(keys)

\* ------------------------------------------------------------------- host
\* The operators whose button presses the host serves at the same time
\* (one script run each).
Runs == {1, 2}

\* The host before either run has started: the clock's second, each run's
\* position in main() and its session_dir, the existing directories
\* output/<second> with their files (name and the run that wrote it), what
\* each run's os.listdir returned, the runs that found their directory
\* gone, and the live Chrome processes started with the fixed debugging
\* port.
HostStart ==
    [ clock |-> 0,
      at |-> [r \in Runs |-> "idle"],
      dir |-> [r \in Runs |-> 0],
      dirs |-> {},
      files |-> [d \in 0..MaxClock |-> {}],
      listed |-> [r \in Runs |-> {}],
      missing |-> {},
      port9222 |-> {} ]

\* ------------------------------------------------------ main()'s images
\* Files an image folder of the Drive can hold (the listing asks for
\* mimeType contains 'image/', whatever the name's extension).
DriveNames == {"a.jpg", "b.PNG", "c.webp"}

\* What main() knows of a listed file when the button is pressed: its name,
\* the two checkboxes of settings[name], and whether compress_image finds a
\* JPEG quality at which the image fits max_bytes.
DriveFile == [name : DriveNames, sel : BOOLEAN, main : BOOLEAN, fits : BOOLEAN]

\* The listings of at most MaxFiles files; the names differ (two files of
\* one name give two widgets of one key, which Streamlit refuses).
DriveListings ==
    { fs \in SeqsUpTo(DriveFile, MaxFiles) :
        \A i, j \in DOMAIN fs : i # j => fs[i].name # fs[j].name }

\* Before the button is pressed: the listing, the position in the loop over
\* it, the two results and the image files written into session_dir.
BuildStart ==
    [ files |-> <<>>, at |-> "idle", i |-> 0,
      sub_files |-> <<>>, main_file |-> None, written |-> {} ]

\* ------------------------------------------------------- the two variants
\* Whether Chrome can be started on the host: yes; no, and variant 2's
\* set-up check sees it; no, and only webdriver.Chrome(...) finds out.
ChromeStates == {"ok", "no_setup", "no_start"}

\* The steps of the try block of variant v, in the order of its source.
Steps(v) ==
    CASE v = 1 ->
           << "login", "new_record_page", "upload", "text_fields", "geocode",
              "description", "visibility", "main_image", "sub_images",
              "category", "save" >>
      [] v = 2 ->
           << "login", "new_record_page", "upload", "text_fields", "geocode",
              "description", "visibility", "main_image", "sub_images",
              "category", "save" >>

\* One run of run_fc_registration, in outline: its position, its state, the
\* steps it has entered, the sessions it created and closed.
OutlineStart ==
    [ at |-> "call", state |-> "Idle", steps |-> <<>>,
      sessions |-> 0, quits |-> 0 ]

\* The two variants given the same host and the same remote behaviour
\* (failAt: the step, in order of execution, during which the remote makes
\* an interaction fail; 0 when none fails).
PairStart ==
    [ chrome |-> "ok", failAt |-> 0, run |-> [v \in {1, 2} |-> OutlineStart] ]

\* ------------------------------------------------- main()'s submit handler
\* What session_dir can hold when the Drive upload starts: metadata.csv and
\* the compressed images of at most MaxFiles listed files.
SessionNames == {"metadata.csv"} \cup { "compressed_" \o n : n \in DriveNames }

\* os.listdir(session_dir): the files in an arbitrary order.
SessionListings ==
    { fs \in SeqsUpTo(SessionNames, MaxFiles + 1) :
        /\ \E i \in DOMAIN fs : fs[i] = "metadata.csv"
        /\ \A i, j \in DOMAIN fs : i # j => fs[i] # fs[j] }

\* Before the button is pressed: no session directory, nothing uploaded,
\* nothing shown; creds is whether both FC credentials were typed.
SubmitStart ==
    [ listing |-> <<>>, creds |-> TRUE, at |-> "idle", dir |-> FALSE,
      i |-> 0, uploaded |-> {}, failed |-> {}, said |-> {},
      registered |-> FALSE, ended |-> "" ]

\* ---------------------------------------------------------- compress_image
\* The JPEG qualities the loop visits: q = 95; while q >= 10: ...; q -= 5.
Qualities == { q \in 10..95 : q % 5 = 0 }

\* The byte budgets tried.
ByteLimits == {2, 5}

\* The sizes img.save can leave in the buffer, relative to the budget.
Sizes(max_bytes) == {max_bytes - 1, max_bytes, max_bytes + 1}

\* Before the call: sizes are the encoded sizes seen so far, in order;
\* buf is the quality of the encoding the buffer holds (0: empty); out is
\* what the call gave: "buf", "None", or "raise" for an exception.
\* tried are the qualities img.save was called with, in order.
CompStart ==
    [ max_bytes |-> 2, at |-> "idle", q |-> 0, tried |-> <<>>,
      sizes |-> <<>>, buf |-> 0, out |-> "" ]

\* The buffer must be smaller than the budget.
Fits_Strict(size, max_bytes) == size < max_bytes

\* if buf.tell() <= max_bytes
Fits(size, max_bytes) == size <= max_bytes

\* ------------------------------------------------------------------- login
SessionKeys == {"username", "folder_id", "is_admin"}

\* The rows users.csv can hold, as read (not yet stripped).
UserRows ==
    [ username : {"admin", " admin", "bob "}, password : {"pw", "pw "},
      folder_id : {"F1", "F2"} ]

\* The text the operator can type into the two inputs.
TypedNames == {"admin", "admin ", "bob", "eve"}
TypedPasswords == {"pw", " pw", "no"}

\* The users tables of at most MaxUsers rows.
UserTables == SeqsUpTo(UserRows, MaxUsers)

RECURSIVE LStrip(_)
LStrip(s) ==
    IF Len(s) > 0 /\ SubSeq(s, 1, 1) = " "
    THEN LStrip(SubSeq(s, 2, Len(s))) ELSE s

RECURSIVE RStrip(_)
RStrip(s) ==
    IF Len(s) > 0 /\ SubSeq(s, Len(s), Len(s)) = " "
    THEN RStrip(SubSeq(s, 1, Len(s) - 1)) ELSE s

\* str.strip()
Strip(s) == RStrip(LStrip(s))

\* The text as typed compared with "admin".
IsAdmin_Untrimmed(u) == u = "admin"

\* (u.strip() == "admin")
IsAdmin(u) == Strip(u) = "admin"

\* m = df[(df["username"] == u.strip()) & (df["password"] == p.strip())]
\* over the stripped columns: the indices of the matching rows.
Matching(users, u, p) ==
    { k \in DOMAIN users :
        /\ Strip(users[k].username) = Strip(u)
        /\ Strip(users[k].password) = Strip(p) }

\* m.iloc[0]
FirstOf(K) == CHOOSE k \in K : \A j \in K : k <= j

\* st.session_state before anyone logged in: none of the three keys. The
\* users table is textual when pandas read both columns as strings; typed
\* is what the two inputs held at the last press of the login button, said
\* the last message shown.
AuthStart ==
    [ users |-> <<>>, textual |-> TRUE, keys |-> {}, username |-> "",
      folder_id |-> "", is_admin |-> FALSE,
      typed |-> [u |-> "", p |-> ""], said |-> "" ]

\* -------------------------------------------------------------------- Init
Metadatas ==
    [place : {""}, furigana : {"f"}, address : {"adr"},
     lat : {"36.0"}, lng : {"136.2"},
     description : {"d"}, main_file : {None, "compressed_a.jpg"},
     sub_files : SeqsUpTo(Names, MaxSub)]

\* The single run before main() calls run_fc_registration.
RunInit ==
    /\ variant \in {1, 2}
    /\ headless \in BOOLEAN
    /\ mock \in {"immediate", "arbitrary"}
    /\ metadata \in Metadatas
    /\ dirFiles \in DirListings
    /\ pc = "start"
    /\ wf = "Idle"
    /\ reason = NoReason
    /\ trace = <<>>
    /\ polls = 0
    /\ subIdx = 0
    /\ driver = FALSE
    /\ sessions = 0
    /\ quits = 0
    /\ callerMsg = None
    /\ alert = None
    /\ alertAt = 0
    /\ uploadList = <<>>
    /\ coords = [lat |-> "", lng |-> ""]
    /\ geoPending = {}
    /\ coordWrites = [lat |-> 0, lng |-> 0]
    /\ shown = <<>>
    /\ cancelled = FALSE

Init ==
    /\ RunInit
    /\ host = HostStart
    /\ build = BuildStart
    /\ pair = PairStart
    /\ submit = SubmitStart
    /\ comp = CompStart
    /\ auth = AuthStart

\* ------------------------------------------------------- session start-up
\* Whether the Chrome set-up and webdriver.Chrome(...) succeed.
StartOutcomes ==
    IF mock = "immediate" THEN {"ok"}
    ELSE IF variant = 1 THEN {"ok", "chrome_fails"}
    ELSE {"ok", "setup_fails", "chrome_fails"}

\* The failure of webdriver.Chrome(...) swallowed: the steps run without a
\* session.
OpenSession_SwallowsFailure ==
    /\ \/ /\ pc = "start"
          /\ wf' = "Running"
          /\ pc' = "open"
          /\ UNCHANGED <<reason, driver, sessions>>
       \/ /\ pc = "open"
          /\ \E out \in StartOutcomes :
               CASE out = "ok" ->
                      /\ driver' = TRUE
                      /\ sessions' = sessions + 1
                      /\ pc' = "auth"
                      /\ UNCHANGED <<wf, reason>>
                 [] out = "setup_fails" ->
                      /\ wf' = "Failed"
                      /\ reason' = [type |-> "Exception",
                                    detail |->
                                      "Failed to setup Chrome environment",
                                    step |-> 0]
                      /\ pc' = "returned"
                      /\ UNCHANGED <<driver, sessions>>
                 [] out = "chrome_fails" ->
                      /\ pc' = "auth"
                      /\ UNCHANGED <<wf, reason, driver, sessions>>
    /\ UNCHANGED <<inputVars, trace, polls, subIdx, quits, callerMsg,
                   remoteVars, shown, cancelled, outerVars>>

\* main() calls run_fc_registration: the run is under way.  Variant 1 then
\* creates the driver before the try block; variant 2 checks the Chrome
\* set-up before the try block and creates the driver inside it.
OpenSession ==
    /\ \/ /\ pc = "start"
          /\ wf' = "Running"
          /\ pc' = "open"
          /\ UNCHANGED <<reason, driver, sessions>>
       \/ /\ pc = "open"
          /\ \E out \in StartOutcomes :
               CASE out = "ok" ->
                      /\ driver' = TRUE
                      /\ sessions' = sessions + 1
                      /\ pc' = "auth"
                      /\ UNCHANGED <<wf, reason>>
                 [] out = "setup_fails" ->
                      /\ wf' = "Failed"
                      /\ reason' = [type |-> "Exception",
                                    detail |->
                                      "Failed to setup Chrome environment",
                                    step |-> 0]
                      /\ pc' = "returned"
                      /\ UNCHANGED <<driver, sessions>>
                 [] out = "chrome_fails" ->
                      /\ wf' = "Failed"
                      /\ reason' = [type |-> "WebDriverException",
                                    detail |-> "chromedriver", step |-> 0]
                      /\ pc' = IF variant = 1 THEN "returned" ELSE "finally"
                      /\ UNCHANGED <<driver, sessions>>
    /\ UNCHANGED <<inputVars, trace, polls, subIdx, quits, callerMsg,
                   remoteVars, shown, cancelled, outerVars>>

\* ------------------------------------------------------------------- steps
\* What every step leaves alone besides pc, wf, reason, trace and polls.
StepFrame == UNCHANGED <<inputVars, sessVars, callerMsg, subIdx, cancelled, outerVars>>

\* 1) login
Authenticate ==
    /\ \/ Exec("auth", "auth_wait", <<Call("get", "login.php", "", 1)>>, 1)
       \/ WaitFor("auth_wait", "auth_fill", "login_id", 1)
       \/ Exec("auth_fill", "nav",
               << Call("send_keys", "login_id", "user", 1),
                  Call("find", "password", "", 1),
                  Call("send_keys", "password", "pwd", 1),
                  Call("find", "login", "", 1),
                  Call("click", "login", "", 1) >>, 1)
    /\ StepFrame
    /\ UNCHANGED remoteVars

\* 2) the new-record page
NavigateToEntryForm ==
    /\ \/ Exec("nav", "nav_wait",
               <<Call("get", "location/?mode=detail&id=0", "", 2)>>, 2)
       \/ WaitFor("nav_wait", "upload", "name_ja", 2)
    /\ StepFrame
    /\ UNCHANGED remoteVars

\* An upload-list entry: its progress bar's aria-valuenow and status text.
CompleteEntry == [bar |-> "100", status |-> "Complete"]

\* The exit condition with the status texts left unchecked.
UploadDone_BarsOnly(list, n) ==
    /\ Len(list) >= n
    /\ \A i \in DOMAIN list : list[i].bar = "100"

\* The exit condition of the upload-completion loop.
UploadDone(list, n) ==
    /\ Len(list) >= n
    /\ \A i \in DOMAIN list : list[i].bar = "100"
    /\ \A i \in DOMAIN list : Contains(list[i].status, "Complete")

\* 2.1) upload every prepared image through the upload modal.  With no
\* prepared image the text sent to the file input is "" ("\n".join([])):
\* the driver either takes it as no file at all or rejects it as the path of
\* a file that does not exist.
UploadImageBatch ==
    /\ \/ /\ WaitFor("upload", "upload_open", "btn-img-add", 3)
          /\ UNCHANGED remoteVars
       \/ /\ Exec("upload_open", "upload_input_wait",
                  << Call("scroll", "btn-img-add", "", 3),
                     Call("js_click", "btn-img-add", "", 3) >>, 3)
          /\ UNCHANGED remoteVars
       \/ /\ WaitFor("upload_input_wait", "upload_send", "InputFile", 3)
          /\ UNCHANGED remoteVars
       \/ /\ Exec("upload_send", "upload_count_wait",
                  <<Call("send_keys", "InputFile", Paths(dirFiles), 3)>>, 3)
          /\ uploadList' = IF mock = "immediate"
                           THEN [i \in 1..expected_count |-> CompleteEntry]
                           ELSE uploadList
          /\ UNCHANGED <<alert, alertAt, coords, geoPending, coordWrites>>
       \/ /\ pc = "upload_send"
          /\ alert = None
          /\ Paths(dirFiles) = {}
          /\ mock = "arbitrary"
          /\ Raise("InvalidArgumentException",
                   "invalid argument: File not found : ", 3, <<>>)
          /\ UNCHANGED remoteVars
       \/ /\ Until("upload_count_wait", "upload_loop", "#files li.media", 3,
                   Len(uploadList) >= expected_count)
          /\ UNCHANGED remoteVars
       \/ /\ pc = "upload_loop"
          /\ alert = None
          /\ IF UploadDone(uploadList, expected_count)
             THEN Go("upload_close",
                     <<Call("observe", "#files li.media", "complete", 3)>>)
             ELSE UNCHANGED <<pc, wf, reason, trace, polls, shown>>
          /\ UNCHANGED remoteVars
       \/ /\ Exec("upload_close", "fill",
                  << Call("find", "#modal-img-add close", "", 3),
                     Call("js_click", "#modal-img-add close", "", 3) >>, 3)
          /\ UNCHANGED remoteVars
    /\ StepFrame

\* The text fields written only when the record has a value for them
\* (an empty value leaves the field as it was).
TextFieldCalls_SkipsEmpty ==
    (IF metadata.place = "" THEN <<>>
     ELSE << Call("find", "name_ja", "", 4),
             Call("scroll", "name_ja", "", 4),
             Call("clear", "name_ja", "", 4),
             Call("send_keys", "name_ja", metadata.place, 4) >>)
    \o (IF metadata.furigana = "" THEN <<>>
        ELSE << Call("find", "name_kana", "", 4),
                Call("scroll", "name_kana", "", 4),
                Call("clear", "name_kana", "", 4),
                Call("send_keys", "name_kana", metadata.furigana, 4) >>)
    \o (IF metadata.address = "" THEN <<>>
        ELSE << Call("find", "place_ja", "", 4),
                Call("scroll", "place_ja", "", 4),
                Call("clear", "place_ja", "", 4),
                Call("send_keys", "place_ja", metadata.address, 4) >>)

\* The calls that write the three text fields.
TextFieldCalls ==
    << Call("find", "name_ja", "", 4),
       Call("scroll", "name_ja", "", 4),
       Call("clear", "name_ja", "", 4),
       Call("send_keys", "name_ja", metadata.place, 4),
       Call("find", "name_kana", "", 4),
       Call("scroll", "name_kana", "", 4),
       Call("clear", "name_kana", "", 4),
       Call("send_keys", "name_kana", metadata.furigana, 4),
       Call("find", "place_ja", "", 4),
       Call("scroll", "place_ja", "", 4),
       Call("clear", "place_ja", "", 4),
       Call("send_keys", "place_ja", metadata.address, 4) >>

\* The text fields written, with the description written next (the geocode
\* step out of its place).
FillTextFields_ThenDescription ==
    /\ Exec("fill", "desc", TextFieldCalls, 4)
    /\ StepFrame
    /\ UNCHANGED remoteVars

\* 3) place name, reading, address
FillTextFields ==
    /\ Exec("fill", "geo", TextFieldCalls, 4)
    /\ StepFrame
    /\ UNCHANGED remoteVars

\* The geocode button clicked a second time.
GeocodeCalls_ClickedTwice ==
    << Call("find", "btn-g-search", "", 5),
       Call("scroll", "btn-g-search", "", 5),
       Call("js_click", "btn-g-search", "", 5),
       Call("js_click", "btn-g-search", "", 5) >>

\* The calls that trigger the geocoder.
GeocodeCalls ==
    << Call("find", "btn-g-search", "", 5),
       Call("scroll", "btn-g-search", "", 5),
       Call("js_click", "btn-g-search", "", 5) >>

\* Clicks on the geocode button among `calls`.
GeocodeClicks(calls) ==
    Cardinality({ i \in DOMAIN calls :
                    calls[i].op = "js_click" /\ calls[i].loc = "btn-g-search" })

\* 4) latitude / longitude: click the geocode button, wait for lat.  Each
\* click makes the remote geocoder fill the coordinate fields (at once on
\* the immediate remote, later or never on the arbitrary one).
TriggerGeocode ==
    /\ \/ /\ Exec("geo", "geo_wait", GeocodeCalls, 5)
          /\ IF pc' # "geo_wait"
             THEN UNCHANGED <<coords, geoPending, coordWrites>>
             ELSE IF mock = "immediate"
             THEN /\ coords' = [lat |-> CoordValue, lng |-> CoordValue]
                  /\ coordWrites' = [f \in {"lat", "lng"} |->
                       coordWrites[f] + GeocodeClicks(GeocodeCalls)]
                  /\ UNCHANGED geoPending
             ELSE /\ geoPending' = {"lat", "lng"}
                  /\ UNCHANGED <<coords, coordWrites>>
          /\ UNCHANGED <<alert, alertAt, uploadList>>
       \/ /\ Until("geo_wait", "desc", "lat", 5, coords.lat # "")
          /\ UNCHANGED remoteVars
    /\ StepFrame

\* The description taken out of the record as it is typed.
FillDescription_PopsRecord ==
    /\ Exec("desc", "vis",
            << Call("find", "entry-description-ja", "", 6),
               Call("scroll", "entry-description-ja", "", 6),
               Call("clear", "entry-description-ja", "", 6),
               Call("send_keys", "entry-description-ja",
                    metadata.description, 6) >>, 6)
    /\ metadata' = IF pc' = "vis" THEN [metadata EXCEPT !.description = ""]
                   ELSE metadata
    /\ UNCHANGED <<variant, headless, mock, dirFiles, sessVars, callerMsg,
                   subIdx, cancelled, outerVars>>
    /\ UNCHANGED remoteVars

\* 5) description
FillDescription ==
    /\ Exec("desc", "vis",
            << Call("find", "entry-description-ja", "", 6),
               Call("scroll", "entry-description-ja", "", 6),
               Call("clear", "entry-description-ja", "", 6),
               Call("send_keys", "entry-description-ja",
                    metadata.description, 6) >>, 6)
    /\ StepFrame
    /\ UNCHANGED remoteVars

\* The loop over the dropdown's options: the first option whose value is
\* "0" is scrolled to and clicked; with no such option nothing is done.
SelectOption(opts) ==
    IF \E i \in DOMAIN opts : opts[i] = "0"
    THEN << Call("scroll", "option", "0", 7), Call("click", "option", "0", 7) >>
    ELSE <<>>

\* 6) the unpublished flag
SetVisibility ==
    /\ \E opts \in OptionLists :
         Exec("vis", "main",
              <<Call("find", "activated", "", 7)>> \o SelectOption(opts), 7)
    /\ StepFrame
    /\ UNCHANGED remoteVars

\* The loop over the picker's boxes: the link of the first box whose text
\* contains main_file is clicked; with no such box nothing is done.
PickMainImage(boxes, main_file) ==
    IF \E i \in DOMAIN boxes : Contains(boxes[i], main_file)
    THEN << Call("find", "box a.select-img-vw", main_file, 8),
            Call("scroll", "box a.select-img-vw", main_file, 8),
            Call("js_click", "box a.select-img-vw", main_file, 8) >>
    ELSE <<>>

\* 7) main image (only when metadata["main_file"] is truthy)
SelectMainImage ==
    /\ \/ /\ pc = "main"
          /\ IF Truthy(metadata.main_file)
             THEN WaitFor("main", "main_open", "select-main-img", 8)
             ELSE alert = None /\ Go("sub", <<>>)
       \/ Exec("main_open", "main_modal_wait",
               << Call("scroll", "select-main-img", "", 8),
                  Call("js_click", "select-main-img", "", 8) >>, 8)
       \/ WaitFor("main_modal_wait", "main_pick", "modal-img-select", 8)
       \/ \E boxes \in BoxLists :
            Exec("main_pick", "sub",
                 PickMainImage(boxes, metadata.main_file), 8)
    /\ StepFrame
    /\ UNCHANGED remoteVars

\* The result lists the picker can show when the first result is taken.
ResultLists == IF mock = "immediate" THEN BoxLists \ {<<>>} ELSE BoxLists

\* The first result selected with the search text left in the field.
PickFirstResultCalls_NoClear ==
    << Call("find", "box[0] a.select-img-vw", "", 9),
       Call("scroll", "box[0] a.select-img-vw", "", 9),
       Call("click", "box[0] a.select-img-vw", "", 9) >>

\* The end of a cycle: the select control of the first result box is
\* located, scrolled to and clicked, then the search field is cleared.
PickFirstResultCalls ==
    << Call("find", "box[0] a.select-img-vw", "", 9),
       Call("scroll", "box[0] a.select-img-vw", "", 9),
       Call("click", "box[0] a.select-img-vw", "", 9),
       Call("clear", "search-file-name", "", 9) >>

\* 8) associated images: one search / select cycle per entry of sub_files
SelectAssociatedImages ==
    /\ \/ /\ pc = "sub"
          /\ IF subIdx < Len(metadata.sub_files)
             THEN WaitFor("sub", "sub_open", "select-sub-img", 9)
             ELSE alert = None /\ Go("cat", <<>>)
          /\ UNCHANGED subIdx
       \/ /\ Exec("sub_open", "sub_modal_wait",
                  << Call("scroll", "select-sub-img", "", 9),
                     Call("click", "select-sub-img", "", 9) >>, 9)
          /\ UNCHANGED subIdx
       \/ /\ WaitFor("sub_modal_wait", "sub_input_wait", "modal-img-select", 9)
          /\ UNCHANGED subIdx
       \/ /\ WaitFor("sub_input_wait", "sub_search", "search-file-name", 9)
          /\ UNCHANGED subIdx
       \/ /\ Exec("sub_search", "sub_result_wait",
                  << Call("scroll", "search-file-name", "", 9),
                     Call("clear", "search-file-name", "", 9),
                     Call("send_keys", "search-file-name",
                          metadata.sub_files[subIdx + 1], 9),
                     Call("find", "search-img", "", 9),
                     Call("scroll", "search-img", "", 9),
                     Call("click", "search-img", "", 9) >>, 9)
          /\ UNCHANGED subIdx
       \/ /\ WaitFor("sub_result_wait", "sub_pick", ".select-img-box", 9)
          /\ UNCHANGED subIdx
       \/ /\ pc = "sub_pick"
          /\ \E boxes \in ResultLists :
               IF boxes = <<>>
               THEN /\ alert = None
                    /\ Raise("IndexError", "list index out of range", 9, <<>>)
                    /\ UNCHANGED subIdx
               ELSE /\ Exec("sub_pick", "sub", PickFirstResultCalls, 9)
                    /\ subIdx' = IF pc' = "sub" THEN subIdx + 1 ELSE subIdx
    /\ UNCHANGED <<inputVars, sessVars, callerMsg, remoteVars, cancelled, outerVars>>

\* The first checkbox taken whatever its value.
CategoryTarget_FirstAlways(cbs) ==
    IF cbs # <<>> THEN cbs[1] ELSE None

\* The checkbox to click: the one whose value is "133", else the first one,
\* else none.
CategoryTarget(cbs) ==
    IF \E i \in DOMAIN cbs : cbs[i] = "133" THEN "133"
    ELSE IF cbs # <<>> THEN cbs[1]
    ELSE None

\* The checkbox lists the category modal can show once the wait has passed
\* (find_elements runs three seconds after the wait: the list may have been
\* re-rendered empty by then).
RenderedCheckboxLists ==
    IF mock = "immediate" THEN CheckboxLists \ {<<>>} ELSE CheckboxLists

\* find_elements on the checkboxes, then scroll to and click the target.
CategoryCalls(cbs) ==
    <<Call("find_elements", "input.category-modal-select", cbs, 10)>> \o
    ( IF CategoryTarget(cbs) # None
      THEN << Call("scroll", "checkbox", CategoryTarget(cbs), 10),
              Call("js_click", "checkbox", CategoryTarget(cbs), 10) >>
      ELSE <<>> )

\* 9) category
SelectCategory ==
    /\ \/ WaitFor("cat", "cat_open", "select-category-btn", 10)
       \/ Exec("cat_open", "cat_list_wait",
               << Call("scroll", "select-category-btn", "", 10),
                  Call("click", "select-category-btn", "", 10) >>, 10)
       \/ WaitFor("cat_list_wait", "cat_pick", "input.category-modal-select", 10)
       \/ \E cbs \in RenderedCheckboxLists :
            Exec("cat_pick", "save", CategoryCalls(cbs), 10)
    /\ StepFrame
    /\ UNCHANGED remoteVars

\* Save clicked with no wait for the success banner.
Save_NoBannerWait ==
    /\ \/ WaitFor("save", "save_click", "save-btn", 11)
       \/ Exec("save_click", "finally",
               << Call("scroll", "save-btn", "", 11),
                  Call("js_click", "save-btn", "", 11) >>, 11)
    /\ StepFrame
    /\ UNCHANGED remoteVars

\* 10) save, then wait for the success banner
Save ==
    /\ \/ WaitFor("save", "save_click", "save-btn", 11)
       \/ Exec("save_click", "save_wait",
               << Call("scroll", "save-btn", "", 11),
                  Call("js_click", "save-btn", "", 11) >>, 11)
       \/ WaitFor("save_wait", "finally", ".alert-success", 11)
    /\ StepFrame
    /\ UNCHANGED remoteVars

\* The step a position of the workflow belongs to.
StepOf(p) ==
    CASE p \in {"auth", "auth_wait", "auth_fill"} -> 1
      [] p \in {"nav", "nav_wait"} -> 2
      [] p \in {"upload", "upload_open", "upload_input_wait", "upload_send",
                "upload_count_wait", "upload_loop", "upload_close"} -> 3
      [] p = "fill" -> 4
      [] p \in {"geo", "geo_wait"} -> 5
      [] p = "desc" -> 6
      [] p = "vis" -> 7
      [] p \in {"main", "main_open", "main_modal_wait", "main_pick"} -> 8
      [] p \in {"sub", "sub_open", "sub_modal_wait", "sub_input_wait",
                "sub_search", "sub_result_wait", "sub_pick"} -> 9
      [] p \in {"cat", "cat_open", "cat_list_wait", "cat_pick"} -> 10
      [] p \in {"save", "save_click", "save_wait"} -> 11
      [] OTHER -> 0

\* A driver command issued while a browser alert is open: the driver closes
\* the alert and the command raises UnexpectedAlertPresentException, whose
\* message carries the alert's text; the workflow has no handler of its own,
\* so the exception leaves the try block like any other.  A wait whose
\* timeout has elapsed issues no further command.
AlertInterrupt ==
    /\ wf = "Running"
    /\ StepOf(pc) # 0
    /\ polls < MaxPolls
    /\ alert # None
    /\ Raise("UnexpectedAlertPresentException", alert, StepOf(pc), <<>>)
    /\ alert' = None
    /\ UNCHANGED <<inputVars, sessVars, callerMsg, subIdx, alertAt,
                   uploadList, coords, geoPending, coordWrites, cancelled, outerVars>>

\* --------------------------------------------------------- leaving the call
\* driver.quit() at the end of the try block instead of in finally.
Finally_QuitOnSuccessOnly ==
    /\ pc = "finally"
    /\ quits' = IF (variant = 1 \/ driver) /\ headless /\ wf = "Completed"
                THEN quits + 1 ELSE quits
    /\ pc' = "returned"
    /\ shown' = IF variant = 1 /\ ~headless
                THEN Append(shown, "browser left open") ELSE shown
    /\ UNCHANGED <<inputVars, wf, reason, trace, polls, subIdx, driver,
                   sessions, callerMsg, remoteVars, cancelled, outerVars>>

\* The finally clause: the driver is quit only in headless runs (and, in
\* variant 2, only when a driver was created); otherwise variant 1 tells the
\* operator that the browser stays open (variant 2 writes it to the log).
Finally ==
    /\ pc = "finally"
    /\ quits' = IF (variant = 1 \/ driver) /\ headless
                THEN quits + 1 ELSE quits
    /\ pc' = "returned"
    /\ shown' = IF variant = 1 /\ ~headless
                THEN Append(shown, "browser left open") ELSE shown
    /\ UNCHANGED <<inputVars, wf, reason, trace, polls, subIdx, driver,
                   sessions, callerMsg, remoteVars, cancelled, outerVars>>

\* The completion message shown after the try / except instead of in it.
Report_SuccessAfterError ==
    /\ pc = "returned"
    /\ callerMsg' = "success"
    /\ pc' = "done"
    /\ UNCHANGED <<inputVars, wf, reason, trace, polls, subIdx, sessVars,
                   remoteVars, shown, cancelled, outerVars>>

\* main(): the try / except around the call.
Report ==
    /\ pc = "returned"
    /\ callerMsg' =
         IF wf = "Completed" THEN "success"
         ELSE IF variant = 1 THEN "error"
         ELSE "error: " \o Str(reason)
    /\ pc' = "done"
    /\ UNCHANGED <<inputVars, wf, reason, trace, polls, subIdx, sessVars,
                   remoteVars, shown, cancelled, outerVars>>

\* ------------------------------------------------------------- remote page
UploadPhase == pc \in {"upload_count_wait", "upload_loop"}

\* The upload widget lists one more of the injected files.
RemoteUploadAdd ==
    /\ mock = "arbitrary"
    /\ UploadPhase
    /\ Len(uploadList) < expected_count
    /\ uploadList' = Append(uploadList, [bar |-> "0", status |-> "Uploading"])
    /\ UNCHANGED <<inputVars, pc, wf, reason, trace, polls, subIdx, sessVars,
                   callerMsg, alert, alertAt, coords, geoPending, coordWrites,
                   shown, cancelled, outerVars>>

\* One entry's upload advances: its bar reaches 100, then its status reads
\* Complete.
RemoteUploadProgress ==
    /\ mock = "arbitrary"
    /\ UploadPhase
    /\ \E i \in DOMAIN uploadList :
         \/ /\ uploadList[i].bar = "0"
            /\ uploadList' = [uploadList EXCEPT ![i].bar = "100"]
         \/ /\ uploadList[i].bar = "100"
            /\ uploadList[i].status = "Uploading"
            /\ uploadList' = [uploadList EXCEPT ![i].status = "Complete"]
    /\ UNCHANGED <<inputVars, pc, wf, reason, trace, polls, subIdx, sessVars,
                   callerMsg, alert, alertAt, coords, geoPending, coordWrites,
                   shown, cancelled, outerVars>>

\* The geocoder fills one of the coordinate fields.
RemoteGeocodeFill ==
    /\ wf = "Running"
    /\ alert = None
    /\ \E f \in geoPending :
         /\ coords' = [coords EXCEPT ![f] = CoordValue]
         /\ coordWrites' = [coordWrites EXCEPT ![f] = @ + 1]
         /\ geoPending' = geoPending \ {f}
    /\ UNCHANGED <<inputVars, pc, wf, reason, trace, polls, subIdx, sessVars,
                   callerMsg, alert, alertAt, uploadList, shown, cancelled, outerVars>>

\* The geocoder rejects the address instead of filling the fields: the page
\* opens a browser alert.
RemoteAlert ==
    /\ wf = "Running"
    /\ alert = None
    /\ geoPending = {"lat", "lng"}
    /\ alert' = AlertText
    /\ alertAt' = StepOf(pc)
    /\ geoPending' = {}
    /\ UNCHANGED <<inputVars, pc, wf, reason, trace, polls, subIdx, sessVars,
                   callerMsg, uploadList, coords, coordWrites, shown,
                   cancelled, outerVars>>

\* The positions at which the workflow polls: the wait.until calls and the
\* upload-completion loop.
BoundedWaits ==
    { "auth_wait", "nav_wait", "upload", "upload_input_wait",
      "upload_count_wait", "geo_wait", "main_modal_wait",
      "sub_modal_wait", "sub_input_wait", "sub_result_wait",
      "cat", "cat_list_wait", "save", "save_wait" }

InPollLoop ==
    \/ pc \in BoundedWaits
    \/ pc = "upload_loop"
    \/ pc = "main" /\ Truthy(metadata.main_file)
    \/ pc = "sub" /\ subIdx < Len(metadata.sub_files)

\* The caller cancels the run while the workflow is polling.
\* run_fc_registration takes no cancellation token and no poll looks at
\* one: nothing in the workflow reads `cancelled`.
Cancel ==
    /\ wf = "Running"
    /\ InPollLoop
    /\ ~cancelled
    /\ cancelled' = TRUE
    /\ UNCHANGED <<inputVars, pc, wf, reason, trace, polls, subIdx, sessVars,
                   callerMsg, remoteVars, shown, outerVars>>

Workflow ==
    \/ OpenSession
    \/ Authenticate
    \/ NavigateToEntryForm
    \/ UploadImageBatch
    \/ FillTextFields
    \/ TriggerGeocode
    \/ FillDescription
    \/ SetVisibility
    \/ SelectMainImage
    \/ SelectAssociatedImages
    \/ SelectCategory
    \/ Save
    \/ AlertInterrupt
    \/ Finally
    \/ Report

Remote ==
    \/ RemoteUploadAdd
    \/ RemoteUploadProgress
    \/ RemoteGeocodeFill
    \/ RemoteAlert

Next == Workflow \/ Remote

Spec == Init /\ [][Next]_vars

\* The workflow is a running thread: it keeps taking its next step.  The
\* remote page is under no obligation to make progress.
FairSpec ==
    /\ Spec
    /\ WF_vars(OpenSession)
    /\ WF_vars(Authenticate)
    /\ WF_vars(NavigateToEntryForm)
    /\ WF_vars(UploadImageBatch)
    /\ WF_vars(FillTextFields)
    /\ WF_vars(TriggerGeocode)
    /\ WF_vars(FillDescription)
    /\ WF_vars(SetVisibility)
    /\ WF_vars(SelectMainImage)
    /\ WF_vars(SelectAssociatedImages)
    /\ WF_vars(SelectCategory)
    /\ WF_vars(Save)
    /\ WF_vars(AlertInterrupt)
    /\ WF_vars(Finally)
    /\ WF_vars(Report)

\* The program with a caller that may cancel a run in progress.
CancelNext == Next \/ Cancel

CancelSpec == Init /\ [][CancelNext]_vars

\* ------------------------------------------------- two runs on one host
\* Everything but the host: the single run of Spec, idle here.
runVars ==
    <<variant, headless, mock, metadata, dirFiles, pc, wf, reason, trace,
      polls, subIdx, driver, sessions, quits, callerMsg, alert, alertAt,
      uploadList, coords, geoPending, coordWrites, shown, cancelled,
      build, pair, submit, comp, auth>>

\* open(path, "wb") / to_csv(path): the file `name` of a directory written
\* (created or overwritten) by run r.
Put(fs, name, r) ==
    { f \in fs : f.name # name } \cup {[name |-> name, owner |-> r]}

\* session_dir = f"output/{datetime.now().strftime('%Y%m%d_%H%M%S')}" and
\* os.makedirs(session_dir, exist_ok=True): the directory is named by the
\* second of the button press.
HostMakeDir(r) ==
    /\ host.at[r] = "idle"
    /\ host' = [host EXCEPT !.at[r] = "made",
                            !.dir[r] = host.clock,
                            !.dirs = @ \cup {host.clock}]
    /\ UNCHANGED runVars

\* The compressed image and metadata.csv written into session_dir (open
\* raises FileNotFoundError when the directory is gone).
HostWriteFiles(r) ==
    /\ host.at[r] = "made"
    /\ \E name \in Names :
         IF host.dir[r] \in host.dirs
         THEN host' = [host EXCEPT
                         !.at[r] = "written",
                         !.files[host.dir[r]] =
                             Put(Put(@, name, r), "metadata.csv", r)]
         ELSE host' = [host EXCEPT !.at[r] = "stopped",
                                   !.missing = @ \cup {r}]
    /\ UNCHANGED runVars

\* os.listdir(session_dir) for the Drive upload and in run_fc_registration,
\* which starts Chrome (variant 2: always with --remote-debugging-port=9222).
HostRegister(r) ==
    /\ host.at[r] = "written"
    /\ IF host.dir[r] \in host.dirs
       THEN host' = [host EXCEPT
                       !.at[r] = "registering",
                       !.listed[r] = host.files[host.dir[r]],
                       !.port9222 = IF variant = 2 THEN @ \cup {r} ELSE @]
       ELSE host' = [host EXCEPT !.at[r] = "stopped",
                                 !.missing = @ \cup {r}]
    /\ UNCHANGED runVars

\* The registration is over (Chrome quit), then shutil.rmtree(session_dir).
HostCleanup(r) ==
    /\ host.at[r] = "registering"
    /\ IF host.dir[r] \in host.dirs
       THEN host' = [host EXCEPT
                       !.at[r] = "cleaned",
                       !.port9222 = @ \ {r},
                       !.dirs = @ \ {host.dir[r]},
                       !.files[host.dir[r]] = {}]
       ELSE host' = [host EXCEPT !.at[r] = "cleaned",
                                 !.port9222 = @ \ {r},
                                 !.missing = @ \cup {r}]
    /\ UNCHANGED runVars

\* datetime.now() moves on to the next second.
HostTick ==
    /\ host.clock < MaxClock
    /\ host' = [host EXCEPT !.clock = @ + 1]
    /\ UNCHANGED runVars

MakeDir == \E r \in Runs : HostMakeDir(r)
WriteFiles == \E r \in Runs : HostWriteFiles(r)
Register == \E r \in Runs : HostRegister(r)
Cleanup == \E r \in Runs : HostCleanup(r)

HostNext == MakeDir \/ WriteFiles \/ Register \/ Cleanup \/ HostTick

\* Two operators of one deployment press the button, each in their own
\* script run.
HostInit ==
    /\ Init
    /\ headless
    /\ mock = "immediate"
    /\ metadata.main_file = None
    /\ metadata.sub_files = <<>>
    /\ dirFiles = {"metadata.csv", "compressed_a.jpg"}

HostSpec == HostInit /\ [][HostNext]_vars

\* ---------------------------------------------- main() builds the record
\* The state of the call of run_fc_registration, not yet made here.
callVars ==
    <<pc, wf, reason, trace, polls, subIdx, driver, sessions, quits,
      callerMsg, alert, alertAt, uploadList, coords, geoPending,
      coordWrites, shown, cancelled>>

\* The button is pressed: session_dir is created empty, sub_files = [] and
\* main_file = None, and the loop over the listed files starts.
BuildBegin ==
    /\ build.at = "idle"
    /\ build' = [build EXCEPT !.at = "loop", !.i = 1]
    /\ UNCHANGED <<inputVars, callVars, host, pair, submit, comp, auth>>

\* The compressed image counted as prepared whether or not it was written.
BuildFile_AppendsUnwritten ==
    /\ build.at = "loop"
    /\ build.i <= Len(build.files)
    /\ LET f == build.files[build.i]
           out == "compressed_" \o f.name
       IN build' =
            IF ~f.sel THEN [build EXCEPT !.i = @ + 1]
            ELSE [build EXCEPT
                    !.i = @ + 1,
                    !.written = IF f.fits THEN @ \cup {out} ELSE @,
                    !.sub_files = Append(@, out),
                    !.main_file = IF f.main THEN out ELSE @]
    /\ UNCHANGED <<inputVars, callVars, host, pair, submit, comp, auth>>

\* One pass of `for f in files`: a file that is not selected is skipped;
\* the image is compressed; when compress_image returned a buffer it is
\* written to session_dir as compressed_<name>, the name is appended to
\* sub_files and, with the file's main box ticked, becomes main_file.
BuildFile ==
    /\ build.at = "loop"
    /\ build.i <= Len(build.files)
    /\ LET f == build.files[build.i]
           out == "compressed_" \o f.name
       IN build' =
            IF ~f.sel \/ ~f.fits THEN [build EXCEPT !.i = @ + 1]
            ELSE [build EXCEPT
                    !.i = @ + 1,
                    !.written = @ \cup {out},
                    !.sub_files = Append(@, out),
                    !.main_file = IF f.main THEN out ELSE @]
    /\ UNCHANGED <<inputVars, callVars, host, pair, submit, comp, auth>>

\* After the loop: the two results go into the record, metadata.csv is
\* written, and session_dir holds what run_fc_registration will list.
BuildEnd ==
    /\ build.at = "loop"
    /\ build.i > Len(build.files)
    /\ build' = [build EXCEPT !.at = "built"]
    /\ metadata' = [metadata EXCEPT !.main_file = build.main_file,
                                    !.sub_files = build.sub_files]
    /\ dirFiles' = build.written \cup {"metadata.csv"}
    /\ UNCHANGED <<variant, headless, mock, callVars, host, pair, submit,
                   comp, auth>>

MainNext == BuildBegin \/ BuildFile \/ BuildEnd

\* main() from the button press to the call of run_fc_registration, over
\* every listing of the Drive folder and every setting of the checkboxes.
MainInit ==
    /\ RunInit
    /\ headless
    /\ mock = "immediate"
    /\ metadata.main_file = None
    /\ metadata.sub_files = <<>>
    /\ dirFiles = {"metadata.csv", "compressed_a.jpg"}
    /\ host = HostStart
    /\ pair = PairStart
    /\ submit = SubmitStart
    /\ comp = CompStart
    /\ auth = AuthStart
    /\ build \in { [BuildStart EXCEPT !.files = fs] : fs \in DriveListings }

MainSpec == MainInit /\ [][MainNext]_vars

\* --------------------------------------------- the two variants in outline
\* The outline of variant v after the change `new` (a record of the fields
\* that change).
Outlined(v, new) ==
    pair' = [pair EXCEPT !.run[v] =
               [k \in DOMAIN @ |-> IF k \in DOMAIN new THEN new[k] ELSE @[k]]]

\* The step the outline of variant v is to enter next.
NextStep(v) == Len(pair.run[v].steps) + 1

\* Steps of the try block, common to both outlines: the next step is
\* entered and its interactions issued; the remote makes one of them fail
\* (control goes to the except clause), or the step ends and, after the
\* last one, the try block is left normally.
OutlineStep(v) ==
    /\ pair.run[v].at = "try"
    /\ LET k == NextStep(v)
           entered == Append(pair.run[v].steps, Steps(v)[k])
       IN IF k = pair.failAt
          THEN Outlined(v, [steps |-> entered, at |-> "except"])
          ELSE IF k = Len(Steps(v))
          THEN Outlined(v, [steps |-> entered, at |-> "finally",
                            state |-> "Completed"])
          ELSE Outlined(v, [steps |-> entered])

\* except Exception as e: (message shown / logged) raise.
OutlineExcept(v) ==
    /\ pair.run[v].at = "except"
    /\ Outlined(v, [state |-> "Failed", at |-> "finally"])

\* Variant 1: the driver is created before the try block, so a failure of
\* webdriver.Chrome(...) leaves the function at once; the finally clause
\* quits the driver when headless.
Variant1 ==
    /\ \/ /\ pair.run[1].at = "call"
          /\ Outlined(1, [state |-> "Running", at |-> "create"])
       \/ /\ pair.run[1].at = "create"
          /\ IF pair.chrome = "ok"
             THEN Outlined(1, [sessions |-> pair.run[1].sessions + 1,
                               at |-> "try"])
             ELSE Outlined(1, [state |-> "Failed", at |-> "returned"])
       \/ OutlineStep(1)
       \/ OutlineExcept(1)
       \/ /\ pair.run[1].at = "finally"
          /\ Outlined(1, [quits |-> IF headless THEN pair.run[1].quits + 1
                                    ELSE pair.run[1].quits,
                          at |-> "returned"])
    /\ UNCHANGED <<inputVars, callVars, host, build, submit, comp, auth>>

\* The finally clause of variant 2 without its `if driver:`.
Variant2Finally_NoDriverGuard ==
    /\ pair.run[2].at = "finally"
    /\ Outlined(2, [quits |-> IF headless THEN pair.run[2].quits + 1
                              ELSE pair.run[2].quits,
                    at |-> "returned"])

\* finally: if driver: if headless: driver.quit()
Variant2Finally ==
    /\ pair.run[2].at = "finally"
    /\ Outlined(2, [quits |-> IF pair.run[2].sessions > 0 /\ headless
                              THEN pair.run[2].quits + 1
                              ELSE pair.run[2].quits,
                    at |-> "returned"])

\* Variant 2: install_chrome_and_driver() is checked before the try block
\* (raising when it fails), driver = None, and the driver is created inside
\* the try block, so a failure of webdriver.Chrome(...) goes through the
\* except and finally clauses.
Variant2 ==
    /\ \/ /\ pair.run[2].at = "call"
          /\ Outlined(2, [state |-> "Running", at |-> "setup"])
       \/ /\ pair.run[2].at = "setup"
          /\ IF pair.chrome = "no_setup"
             THEN Outlined(2, [state |-> "Failed", at |-> "returned"])
             ELSE Outlined(2, [at |-> "create"])
       \/ /\ pair.run[2].at = "create"
          /\ IF pair.chrome = "ok"
             THEN Outlined(2, [sessions |-> pair.run[2].sessions + 1,
                               at |-> "try"])
             ELSE Outlined(2, [at |-> "except"])
       \/ OutlineStep(2)
       \/ OutlineExcept(2)
       \/ Variant2Finally
    /\ UNCHANGED <<inputVars, callVars, host, build, submit, comp, auth>>

PairNext == Variant1 \/ Variant2

\* Both variants called with the same arguments, headless set, on the same
\* host and against the same remote behaviour.
PairInit ==
    /\ RunInit
    /\ headless
    /\ mock = "immediate"
    /\ metadata.main_file = None
    /\ metadata.sub_files = <<>>
    /\ dirFiles = {"metadata.csv", "compressed_a.jpg"}
    /\ host = HostStart
    /\ build = BuildStart
    /\ submit = SubmitStart
    /\ comp = CompStart
    /\ auth = AuthStart
    /\ pair \in { [PairStart EXCEPT !.chrome = c, !.failAt = k] :
                    c \in ChromeStates, k \in 0..Len(Steps(1)) }

PairSpec == PairInit /\ [][PairNext]_vars

\* ------------------------------------- main()'s submit handler, end to end
\* An exception leaves the handler before shutil.rmtree: variant 1 has no
\* handler for it and the script run dies; variant 2's outer `except` shows
\* the error. Neither removes session_dir.
SubmitAbort ==
    IF variant = 1
    THEN [submit EXCEPT !.at = "ended", !.ended = "raised"]
    ELSE [submit EXCEPT !.at = "ended", !.ended = "returned",
                        !.said = @ \cup {"process_error"}]

SubmitFrame == UNCHANGED <<inputVars, callVars, host, build, pair, comp, auth>>

\* The button is pressed: os.makedirs(session_dir, exist_ok=True).
SubmitBegin ==
    /\ submit.at = "idle"
    /\ submit' = [submit EXCEPT !.at = "prepare", !.dir = TRUE]
    /\ SubmitFrame

\* The address search, the compression loop and metadata.csv: they leave
\* session_dir holding the listing, or one of them raises (Image.open of a
\* file missing from data/, requests.get in variant 1, to_csv).
SubmitPrepare ==
    /\ submit.at = "prepare"
    /\ \/ submit' = [submit EXCEPT !.at = "folder"]
       \/ submit' = SubmitAbort
    /\ SubmitFrame

\* create_timestamped_folder: the Drive folder is created, or the request
\* raises (variant 2 logs and re-raises).
SubmitFolder ==
    /\ submit.at = "folder"
    /\ \/ submit' = [submit EXCEPT !.at = "upload", !.i = 1]
       \/ submit' = SubmitAbort
    /\ SubmitFrame

\* One pass of `for fn in os.listdir(session_dir)`: the chunks of the file
\* go up and "uploaded" is shown, or next_chunk raises. Variant 1 has no
\* handler around the pass; variant 2 catches the exception, shows the
\* failure and goes on with the next file.
SubmitUploadFile ==
    /\ submit.at = "upload"
    /\ submit.i <= Len(submit.listing)
    /\ LET fn == submit.listing[submit.i]
       IN \/ submit' = [submit EXCEPT !.i = @ + 1,
                                      !.uploaded = @ \cup {fn}]
          \/ /\ variant = 1
             /\ submit' = SubmitAbort
          \/ /\ variant = 2
             /\ submit' = [submit EXCEPT !.i = @ + 1,
                                         !.failed = @ \cup {fn},
                                         !.said = @ \cup {"upload_failed"}]
    /\ SubmitFrame

\* After the loop: st.success("Drive へのアップロード完了").
SubmitUploadDone ==
    /\ submit.at = "upload"
    /\ submit.i > Len(submit.listing)
    /\ submit' = [submit EXCEPT !.at = "register",
                                !.said = @ \cup {"drive_complete"}]
    /\ SubmitFrame

\* The registration: variant 2 skips it with a warning when a credential is
\* empty; otherwise run_fc_registration is called, and what it raises is
\* caught and shown.
SubmitRegister ==
    /\ submit.at = "register"
    /\ IF variant = 2 /\ ~submit.creds
       THEN submit' = [submit EXCEPT !.at = "cleanup",
                                     !.said = @ \cup {"register_skipped"}]
       ELSE \E ok \in BOOLEAN :
              submit' = [submit EXCEPT
                           !.at = "cleanup",
                           !.registered = TRUE,
                           !.said = @ \cup {IF ok THEN "register_complete"
                                                  ELSE "register_error"}]
    /\ SubmitFrame

\* shutil.rmtree(session_dir): the directory goes, or rmtree raises (a file
\* still open on Windows); variant 2 catches and logs that, variant 1
\* does not.
SubmitCleanup ==
    /\ submit.at = "cleanup"
    /\ \/ submit' = [submit EXCEPT !.at = "ended", !.ended = "returned",
                                   !.dir = FALSE]
       \/ submit' = [submit EXCEPT
                       !.at = "ended",
                       !.ended = IF variant = 1 THEN "raised" ELSE "returned"]
    /\ SubmitFrame

SubmitNext ==
    \/ SubmitBegin
    \/ SubmitPrepare
    \/ SubmitFolder
    \/ SubmitUploadFile
    \/ SubmitUploadDone
    \/ SubmitRegister
    \/ SubmitCleanup

\* One press of the button, over both variants, every content of
\* session_dir and both settings of the credentials.
SubmitInit ==
    /\ RunInit
    /\ headless
    /\ mock = "immediate"
    /\ metadata.main_file = None
    /\ metadata.sub_files = <<>>
    /\ dirFiles = {"metadata.csv", "compressed_a.jpg"}
    /\ host = HostStart
    /\ build = BuildStart
    /\ pair = PairStart
    /\ comp = CompStart
    /\ auth = AuthStart
    /\ submit \in { [SubmitStart EXCEPT !.listing = fs, !.creds = c] :
                      fs \in SessionListings, c \in BOOLEAN }

SubmitSpec == SubmitInit /\ [][SubmitNext]_vars

\* ------------------------------------------------- one call of compress_image
CompFrame == UNCHANGED <<inputVars, callVars, host, build, pair, submit, auth>>

\* compress_image(img, max_bytes) is entered: buf = BytesIO(); q = 95.
CompCall ==
    /\ comp.at = "idle"
    /\ comp' = [comp EXCEPT !.at = "loop", !.q = 95]
    /\ CompFrame

\* One pass of `while q >= 10`: the buffer is emptied and the image encoded
\* at quality q; the encoder decides the size. A buffer that fits is
\* returned, otherwise q -= 5. img.save can also raise (an image whose mode
\* JPEG cannot hold): variant 1 lets the exception out, variant 2 logs it
\* and returns None.
CompEncode ==
    /\ comp.at = "loop"
    /\ comp.q >= 10
    /\ \/ \E size \in Sizes(comp.max_bytes) :
            IF Fits(size, comp.max_bytes)
            THEN comp' = [comp EXCEPT !.tried = Append(@, comp.q),
                                      !.sizes = Append(@, size),
                                      !.buf = comp.q,
                                      !.at = "returned", !.out = "buf"]
            ELSE comp' = [comp EXCEPT !.tried = Append(@, comp.q),
                                      !.sizes = Append(@, size),
                                      !.buf = comp.q,
                                      !.q = @ - 5]
       \/ comp' = [comp EXCEPT
                     !.tried = Append(@, comp.q),
                     !.at = IF variant = 1 THEN "raised" ELSE "returned",
                     !.out = IF variant = 1 THEN "raise" ELSE "None"]
    /\ CompFrame

\* The loop is left with q < 10: return None.
CompExhausted ==
    /\ comp.at = "loop"
    /\ comp.q < 10
    /\ comp' = [comp EXCEPT !.at = "returned", !.out = "None"]
    /\ CompFrame

CompNext == CompCall \/ CompEncode \/ CompExhausted

\* One call, over both variants, the budgets and every run of sizes the
\* encoder can produce.
CompInit ==
    /\ RunInit
    /\ headless
    /\ mock = "immediate"
    /\ metadata.main_file = None
    /\ metadata.sub_files = <<>>
    /\ dirFiles = {"metadata.csv", "compressed_a.jpg"}
    /\ host = HostStart
    /\ build = BuildStart
    /\ pair = PairStart
    /\ submit = SubmitStart
    /\ auth = AuthStart
    /\ comp \in { [CompStart EXCEPT !.max_bytes = m] : m \in ByteLimits }

CompSpec == CompInit /\ [][CompNext]_vars

\* ------------------------------------------------------- login and logout
AuthFrame == UNCHANGED <<inputVars, callVars, host, build, pair, submit, comp>>

\* No operator is logged in and the login button is pressed with u and p
\* typed. The .str accessor raises on a column that is not textual, before
\* anything is stored (variant 1 lets it out, variant 2 shows a login
\* error). With a matching row the three keys are set, without one the
\* failure is shown.
Login(u, p) ==
    /\ "username" \notin auth.keys
    /\ LET m == Matching(auth.users, u, p)
           t == [u |-> u, p |-> p]
       IN auth' =
            IF ~auth.textual
            THEN [auth EXCEPT !.typed = t,
                              !.said = IF variant = 1 THEN "raise"
                                                      ELSE "login_error"]
            ELSE IF m # {}
            THEN [auth EXCEPT
                    !.typed = t,
                    !.keys = @ \cup {"username", "folder_id", "is_admin"},
                    !.username = Strip(u),
                    !.folder_id = auth.users[FirstOf(m)].folder_id,
                    !.is_admin = IsAdmin(u),
                    !.said = "success"]
            ELSE [auth EXCEPT !.typed = t, !.said = "failure"]
    /\ AuthFrame

\* An operator is logged in and the logout button is pressed: the three
\* keys are popped.
Logout ==
    /\ "username" \in auth.keys
    /\ auth' = [auth EXCEPT
                  !.keys = @ \ {"username", "folder_id", "is_admin"},
                  !.username = "", !.folder_id = "", !.is_admin = FALSE,
                  !.said = "logout"]
    /\ AuthFrame

LoginPressed == \E u \in TypedNames, p \in TypedPasswords : Login(u, p)

AuthNext == LoginPressed \/ Logout

\* One browser session, over both variants and every users table.
AuthInit ==
    /\ RunInit
    /\ headless
    /\ mock = "immediate"
    /\ metadata.main_file = None
    /\ metadata.sub_files = <<>>
    /\ dirFiles = {"metadata.csv", "compressed_a.jpg"}
    /\ host = HostStart
    /\ build = BuildStart
    /\ pair = PairStart
    /\ submit = SubmitStart
    /\ comp = CompStart
    /\ auth \in { [AuthStart EXCEPT !.users = us, !.textual = t] :
                    us \in UserTables, t \in BOOLEAN }

AuthSpec == AuthInit /\ [][AuthNext]_vars

\* ================================================================== claims
\* Control is back in main().
Returned == pc \in {"returned", "done"}

\* The trace holds a call `op` on `loc`.
Issued(op, loc) ==
    \E i \in DOMAIN trace : trace[i].op = op /\ trace[i].loc = loc

\* Some call of a step after step s was issued.
IssuedAfterStep(s) == \E i \in DOMAIN trace : trace[i].step > s

C2_StepsInOrder ==
    /\ [][ /\ wf = "Failed" => (wf' = "Failed" /\ trace' = trace)
           /\ trace' # trace =>
                /\ wf = "Running"
                /\ Len(trace') > Len(trace)
                /\ SubSeq(trace', 1, Len(trace)) = trace
                /\ \A i \in (Len(trace) + 1)..Len(trace') :
                     trace'[i].step = StepOf(pc)
           /\ (StepOf(pc') # StepOf(pc) /\ StepOf(pc') # 0) =>
                /\ StepOf(pc') = StepOf(pc) + 1
                /\ wf' = "Running"
                /\ reason' = NoReason ]_vars
    /\ [](\A i \in 1..(Len(trace) - 1) : trace[i].step <= trace[i + 1].step)

\* A run that failed in TriggerGeocode after the earlier steps had run.
C2_Witness ==
    /\ pc = "done"
    /\ wf = "Failed"
    /\ reason.step = 5
    /\ Issued("send_keys", "place_ja")
    /\ ~IssuedAfterStep(5)

\* ---------------------------------------------------------------------- C3
\* The success banner was observed visible after the save click.
BannerObservedAfterSave ==
    \E j \in DOMAIN trace :
        /\ trace[j].op = "wait" /\ trace[j].loc = ".alert-success"
        /\ \E i \in 1..(j - 1) :
             trace[i].op = "js_click" /\ trace[i].loc = "save-btn"

\* C3: the run returns normally, and main() shows the completion message,
\* only when the success banner was observed after the save click; a run
\* that is over without that observation is Failed.
C3_SuccessOnlyWithBanner ==
    /\ wf = "Completed" => BannerObservedAfterSave
    /\ callerMsg = "success" => wf = "Completed"
    /\ (pc \in {"finally", "returned", "done"} /\ ~BannerObservedAfterSave)
          => wf = "Failed"
    /\ (pc = "done" /\ wf = "Failed") => callerMsg # "success"

\* main() has shown the completion message.
C3_Witness ==
    /\ pc = "done"
    /\ callerMsg = "success"
    /\ mock = "arbitrary"

\* ---------------------------------------------------------------------- C4
\* C4: the upload-completion wait always ends: a workflow that has entered
\* the loop leaves it (with the uploads complete, or Failed on a cap).
C4_UploadWaitEnds ==
    (pc = "upload_loop") ~> (pc # "upload_loop")

\* ---------------------------------------------------------------------- C5
\* At least n entries of the upload list, and every entry of it, show
\* progress 100 and the status Complete.
EveryFileComplete(list, n) ==
    /\ Len(list) >= n
    /\ \A i \in DOMAIN list : list[i] = CompleteEntry

\* C5: the workflow leaves the upload-completion loop only on observing
\* every expected file complete in the upload list, and the modal is closed
\* and any later step's call (the save click included) is issued only after
\* that observation.
C5_NoPartialUpload ==
    /\ [][ (pc = "upload_loop" /\ pc' # "upload_loop" /\ wf' = "Running")
             => EveryFileComplete(uploadList, expected_count) ]_vars
    /\ []( ( \/ Issued("js_click", "#modal-img-add close")
             \/ IssuedAfterStep(3) )
           => /\ Issued("observe", "#files li.media")
              /\ EveryFileComplete(uploadList, expected_count) )

\* Save was clicked after two files were uploaded by a slow remote.
C5_Witness ==
    /\ Issued("js_click", "save-btn")
    /\ mock = "arbitrary"
    /\ expected_count = 2
    /\ Len(uploadList) = 2

\* ---------------------------------------------------------------------- C6
\* C6: when an alert appeared during TriggerGeocode, the run that is over
\* is Failed with the alert as its reason, text included, and no call of
\* FillDescription or of a later step was issued.
C6_AlertFailsRun ==
    alertAt = 5 =>
        /\ ~IssuedAfterStep(5)
        /\ Returned =>
             /\ wf = "Failed"
             /\ reason.type = "UnexpectedAlertPresentException"
             /\ reason.detail = AlertText

IsSearch(e) == e.op = "send_keys" /\ e.loc = "search-file-name"

Searched ==
    LET cycles == SelectSeq(trace, IsSearch)
    IN [i \in DOMAIN cycles |-> cycles[i].arg]

NotMain(fname) == fname # metadata.main_file

\* C8: once SelectAssociatedImages is over, one search / select cycle was
\* made for each entry of sub_files other than the main image, in list
\* order, and none for an entry equal to the main image.
C8_CyclesSkipMainImage ==
    (wf \in {"Running", "Completed"} /\ (StepOf(pc) >= 10 \/ wf = "Completed"))
        => Searched = SelectSeq(metadata.sub_files, NotMain)

\* ---------------------------------------------------------------------- C9
\* C9: the workflow goes past SetVisibility only with the option "0"
\* selected; without such an option no later step issues a call.
C9_AbsentOptionIsFatal ==
    IssuedAfterStep(7) => Issued("click", "option")

\* --------------------------------------------------------------------- C10
\* C10: with a main image set, save is clicked only in runs where a picker
\* entry matching the main image was found and selected.
C10_MainImageNotFoundIsFatal ==
    (Truthy(metadata.main_file) /\ Issued("js_click", "save-btn"))
        => Issued("js_click", "box a.select-img-vw")

\* --------------------------------------------------------------------- C20
\* The workflow is at a wait.until call.
InBoundedWait == InPollLoop /\ pc # "upload_loop"

\* What the state says about the condition of the wait at position p, for
\* the two waits whose condition is a value of the page the model holds.
ConditionHolds(p) ==
    CASE p = "geo_wait" -> coords.lat # ""
      [] p = "upload_count_wait" -> Len(uploadList) >= expected_count
      [] OTHER -> TRUE

\* C20: the workflow leaves a bounded wait either because a poll observed
\* the condition true before the timeout (the observation is the one call
\* added, and the run goes on) or Failed with nothing further issued; a
\* poll that finds the condition false only counts; a run whose wait timed
\* out is Failed, has used up its polls, and issues no call afterwards.
C20_WaitsObserveOrFail ==
    /\ [][ (InBoundedWait /\ pc' # pc) =>
             \/ /\ wf' \in {"Running", "Completed"}
                /\ polls < MaxPolls
                /\ ConditionHolds(pc)
                /\ Len(trace') = Len(trace) + 1
                /\ trace'[Len(trace')].op = "wait"
                /\ trace'[Len(trace')].step = StepOf(pc)
                /\ StepOf(pc') \in {0, StepOf(pc), StepOf(pc) + 1}
             \/ /\ wf' = "Failed"
                /\ pc' = "finally"
                /\ trace' = trace
                /\ reason'.type = "TimeoutException" => polls = MaxPolls ]_vars
    /\ [][ (InBoundedWait /\ pc' = pc /\ polls' # polls) =>
             (polls' = polls + 1 /\ polls < MaxPolls /\ trace' = trace) ]_vars
    /\ [][ reason.type = "TimeoutException" =>
             (wf' = "Failed" /\ trace' = trace /\ StepOf(pc') = 0) ]_vars
    /\ [](reason.type = "TimeoutException" =>
            (wf = "Failed" /\ ~IssuedAfterStep(reason.step)))

\* The wait on the lat field timed out after the geocode click.
C20_Witness ==
    /\ wf = "Failed"
    /\ reason.type = "TimeoutException"
    /\ reason.step = 5
    /\ Issued("js_click", "btn-g-search")
    /\ coords.lat = ""

\* --------------------------------------------------------------------- C19
\* C19: the workflow state only moves Idle -> Running -> Completed or
\* Idle -> Running -> Failed, so Completed and Failed are absorbing and
\* exclusive; main() gives the operator one terminal signal per run, when
\* the run is over, and it is the completion message exactly when the run
\* is Completed: no completion message with or after a failure, and no
\* error message in a Completed run.
C19_StateMachine ==
    /\ [][ wf' # wf =>
             <<wf, wf'>> \in { <<"Idle", "Running">>,
                               <<"Running", "Completed">>,
                               <<"Running", "Failed">> } ]_vars
    /\ [][ callerMsg # None => callerMsg' = callerMsg ]_vars
    /\ [](callerMsg # None <=> pc = "done")
    /\ [](callerMsg # None =>
            /\ wf \in {"Completed", "Failed"}
            /\ callerMsg = "success" <=> wf = "Completed")
    /\ [](wf = "Completed" =>
            /\ reason = NoReason
            /\ \A i \in DOMAIN shown : ~StartsWith(shown[i], "error"))

\* main() has reported the failure of a run that timed out.
C19_Witness ==
    /\ pc = "done"
    /\ wf = "Failed"
    /\ reason.type = "TimeoutException"
    /\ callerMsg = "error: Message: "

\* --------------------------------------------------------------------- C18
\* C18: no step changes the record (place, reading, address, description,
\* main image, associated images: the whole of `metadata` stays as it was
\* given); the only writes of a run are the two coordinate fields of the
\* form, each populated at most once and never changed afterwards.
C18_RecordUnchanged ==
    /\ [][ metadata' = metadata ]_vars
    /\ [][ \A f \in {"lat", "lng"} :
             /\ coords[f] # "" => coords'[f] = coords[f]
             /\ coordWrites'[f] >= coordWrites[f] ]_vars
    /\ [](coordWrites.lat <= 1 /\ coordWrites.lng <= 1)

\* A completed run during which the remote geocoder filled both fields.
C18_Witness ==
    /\ pc = "done"
    /\ wf = "Completed"
    /\ mock = "arbitrary"
    /\ coordWrites = [lat |-> 1, lng |-> 1]
    /\ Len(metadata.sub_files) = 1

\* --------------------------------------------------------------------- C17
\* The files of its session_dir that run r wrote.
OwnFiles(r) == { f \in host.files[host.dir[r]] : f.owner = r }

\* C17: two runs on one host share nothing: a run lists only files it
\* wrote itself, keeps the files it wrote for as long as it uses them (no
\* other run overwrites or deletes them, nor removes its directory), and
\* no two live browsers were started with the same debugging port.
C17_RunsShareNothing ==
    /\ \A r \in Runs : \A f \in host.listed[r] : f.owner = r
    /\ \A r \in Runs :
         host.at[r] \in {"written", "registering"} =>
            /\ host.dir[r] \in host.dirs
            /\ Cardinality(OwnFiles(r)) = 2
    /\ host.missing = {}
    /\ Cardinality(host.port9222) <= 1

\* --------------------------------------------------------------------- C16
\* C16 (as stated): a run creates exactly one browser session: never a
\* second one, and it is never over without having created one.
C16_ExactlyOneSession ==
    /\ sessions <= 1
    /\ Returned => sessions = 1

\* C16 (amended): a run creates at most one browser session and never a
\* second one; every step runs, and a run is Completed, only with exactly
\* one session created; a run is over without a session only when the
\* Chrome set-up or webdriver.Chrome(...) failed, and that run is Failed
\* without any step having run.
C16_AtMostOneSession ==
    /\ sessions <= 1
    /\ driver <=> sessions = 1
    /\ (StepOf(pc) # 0 \/ trace # <<>> \/ wf = "Completed") => sessions = 1
    /\ (Returned /\ sessions = 0) =>
          /\ wf = "Failed"
          /\ reason.step = 0
          /\ reason.type \in {"Exception", "WebDriverException"}
          /\ trace = <<>>

\* A run that is over because Chrome could not be started.
C16_Witness ==
    /\ pc = "done"
    /\ sessions = 0
    /\ reason.type = "WebDriverException"

\* --------------------------------------------------------------------- C15
\* The call each step begins with (SelectAssociatedImages begins each of
\* its cycles with the wait on select-sub-img).
StepEntries ==
    { <<"get", "login.php">>, <<"get", "location/?mode=detail&id=0">>,
      <<"wait", "btn-img-add">>, <<"find", "name_ja">>,
      <<"find", "btn-g-search">>, <<"find", "entry-description-ja">>,
      <<"find", "activated">>, <<"wait", "select-main-img">>,
      <<"wait", "select-category-btn">>, <<"wait", "save-btn">> }

Times(op, loc) ==
    Cardinality({ i \in DOMAIN trace :
                    trace[i].op = op /\ trace[i].loc = loc })

\* C15: no step is started more than once in a run: the calls are issued
\* in step order and the call a step begins with is only ever the first
\* call of its step; the login form is submitted at most once and there are
\* no more associated-image cycles than entries of sub_files.  The workflow
\* never moves back to an earlier step, and once a step has failed no step
\* is entered and no call is issued; a poll that finds its condition false
\* leaves the workflow where it is.
C15_NoStepRestarted ==
    /\ [][ (StepOf(pc) # 0 /\ StepOf(pc') # 0)
             => StepOf(pc') >= StepOf(pc) ]_vars
    /\ [][ wf = "Failed" => (StepOf(pc') = 0 /\ trace' = trace) ]_vars
    /\ [][ polls' > polls => (pc' = pc /\ trace' = trace) ]_vars
    /\ [](\A i \in 2..Len(trace) :
            /\ trace[i - 1].step <= trace[i].step
            /\ <<trace[i].op, trace[i].loc>> \in StepEntries
                  => trace[i - 1].step < trace[i].step)
    /\ [](Times("click", "login") <= 1)
    /\ [](Times("wait", "select-sub-img") <= Len(metadata.sub_files))

\* A run that failed at the category step after two associated-image
\* cycles, the login form having been submitted once.
C15_Witness ==
    /\ pc = "done"
    /\ wf = "Failed"
    /\ reason.step = 10
    /\ Times("click", "login") = 1
    /\ Times("wait", "select-sub-img") = 2

\* --------------------------------------------------------------------- C14
\* Some message the operator was shown carries the failure reason.
ReasonShown ==
    \/ Contains(callerMsg, Str(reason))
    \/ \E i \in DOMAIN shown : Contains(shown[i], Str(reason))

\* C14: when the run has failed and main() has handled it, the message
\* main() showed carries the failure reason unchanged, and the operator
\* was not left with messages that all omit the reason.
C14_CallerShowsReason ==
    (pc = "done" /\ wf = "Failed") =>
        /\ Contains(callerMsg, Str(reason))
        /\ ReasonShown

\* --------------------------------------------------------------------- C13
NotFound == wf = "Failed" /\ reason.type = "NoSuchElementException"

C12_CancelFailsRun ==
    (cancelled /\ Returned) =>
        /\ wf = "Failed"
        /\ reason.type = "Cancelled"
        /\ quits = 1

\* --------------------------------------------------------------------- C11
IsCheckboxClick(e) == e.op = "js_click" /\ e.loc = "checkbox"

CheckboxClicks == SelectSeq(trace, IsCheckboxClick)

\* C11: once find_elements has returned a rendered (non-empty) checkbox
\* list, exactly one checkbox was clicked: the one whose value is "133"
\* when the list holds it, and otherwise the first of the list.  No run
\* clicks more than one checkbox.
C11_OneCheckboxClicked ==
    /\ Len(CheckboxClicks) <= 1
    /\ \A i \in DOMAIN trace :
         (trace[i].op = "find_elements" /\ trace[i].arg # <<>>) =>
            /\ Len(CheckboxClicks) = 1
            /\ CheckboxClicks[1].arg =
                 ( IF \E k \in DOMAIN trace[i].arg : trace[i].arg[k] = "133"
                   THEN "133" ELSE trace[i].arg[1] )

\* The target checkbox was clicked although it was not the first one.
C11_Witness ==
    /\ \E i \in DOMAIN trace :
         trace[i].op = "find_elements" /\ trace[i].arg = <<"7", "133">>
    /\ Len(CheckboxClicks) = 1
    /\ CheckboxClicks[1].arg = "133"

\* --------------------------------------------------------------------- C21
\* The workflow has gone past TriggerGeocode: it is at FillDescription or a
\* later step, or has issued a call of one.
PastGeocode ==
    \/ wf = "Running" /\ StepOf(pc) >= 6
    \/ IssuedAfterStep(5)

\* C21 (as stated): whenever the workflow has proceeded past TriggerGeocode,
\* both coordinate fields of the form, latitude and longitude, are
\* non-empty.
C21_BothCoordinatesFilled ==
    PastGeocode => coords.lat # "" /\ coords.lng # ""

\* --------------------------------------------------------------------- C22
\* The three text fields of the form.
TextFields == {"name_ja", "name_kana", "place_ja"}

\* The record value the workflow is to put into a text field.
RecordValue(field) ==
    CASE field = "name_ja" -> metadata.place
      [] field = "name_kana" -> metadata.furigana
      [] field = "place_ja" -> metadata.address

\* FillTextFields has just ended: the workflow is about to start
\* TriggerGeocode.
TextFieldsDone == wf = "Running" /\ pc = "geo"

\* The trace holds, one right after the other, the location of `field`, its
\* scroll into view, its clearing and the typing of `text`.
WrittenScrolled(field, text) ==
    \E i \in { j \in DOMAIN trace : trace[j].loc = field } :
       /\ i + 3 <= Len(trace)
       /\ trace[i] = Call("find", field, "", 4)
       /\ trace[i + 1] = Call("scroll", field, "", 4)
       /\ trace[i + 2] = Call("clear", field, "", 4)
       /\ trace[i + 3] = Call("send_keys", field, text, 4)

\* C22: in every run that gets through FillTextFields, each of the three
\* fields place, reading and address was scrolled into view, cleared and
\* then written with the record's value, an empty value included, and at
\* the end of the step the field holds exactly that value whatever it held
\* before.
C22_AllTextFieldsWritten ==
    TextFieldsDone =>
        \A field \in TextFields :
           /\ WrittenScrolled(field, RecordValue(field))
           /\ \A c0 \in StaleContents :
                ContentAfter(field, c0, Len(trace)) = RecordValue(field)

\* A run completed with an empty place name in the record.
C22_Witness ==
    /\ wf = "Completed"
    /\ metadata.place = ""
    /\ WrittenScrolled("name_ja", "")

\* --------------------------------------------------------------------- C23
\* The record names a main image / holds associated images.
MainImageSet == metadata.main_file \notin {None, ""}
SubImagesSet == Len(metadata.sub_files) > 0

\* The pickers were opened: the clicks on their buttons.
MainPickerOpened == Issued("js_click", "select-main-img")
SubPickerOpened == Issued("click", "select-sub-img")

\* Some call of step s was issued.
IssuedInStep(s) == \E i \in DOMAIN trace : trace[i].step = s

\* C23: the main-image picker is opened only when main_file is set and the
\* associated-image picker only when sub_files is non-empty; a run that has
\* gone past these steps has opened each picker whose condition holds; a
\* skipped step issues no call at all, and a run that completes has still
\* opened the category picker and clicked save.
C23_PickersOpenedIffSet ==
    /\ MainPickerOpened => MainImageSet
    /\ SubPickerOpened => SubImagesSet
    /\ ~MainImageSet => ~IssuedInStep(8)
    /\ ~SubImagesSet => ~IssuedInStep(9)
    /\ IssuedAfterStep(8) /\ MainImageSet => MainPickerOpened
    /\ IssuedAfterStep(9) /\ SubImagesSet => SubPickerOpened
    /\ wf = "Completed" =>
          /\ Issued("click", "select-category-btn")
          /\ Issued("js_click", "save-btn")

\* A run completed with both conditional steps skipped.
C23_Witness ==
    /\ wf = "Completed"
    /\ ~MainImageSet
    /\ ~SubImagesSet
    /\ Issued("js_click", "save-btn")

\* --------------------------------------------------------------------- C24
\* What a call of SelectAssociatedImages is within a cycle ("" for the
\* waits, scrolls and lookups in between).
CycleEvent(c) ==
    CASE c.op = "click" /\ c.loc = "select-sub-img" -> "open"
      [] c.op = "clear" /\ c.loc = "search-file-name" -> "clear"
      [] c.op = "send_keys" /\ c.loc = "search-file-name" -> "type"
      [] c.op = "click" /\ c.loc = "search-img" -> "submit"
      [] c.op = "wait" /\ c.loc = ".select-img-box" -> "observe"
      [] c.op = "click" /\ c.loc = "box[0] a.select-img-vw" -> "select"
      [] OTHER -> ""

IsCycleEvent(c) == c.step = 9 /\ CycleEvent(c) # ""

\* The cycle events issued so far, in order.
CycleEvents == SelectSeq(trace, IsCycleEvent)

\* One cycle (the field is also cleared right before the typing).
CycleOrder ==
    <<"open", "clear", "type", "submit", "observe", "select", "clear">>

\* A cycle after the first has just begun: the last call issued is the wait
\* for the picker button, and the search field was typed into before.
LaterCycleBegins ==
    /\ trace # <<>>
    /\ trace[Len(trace)] = Call("wait", "select-sub-img", "", 9)
    /\ Issued("send_keys", "search-file-name")

\* C24: the events of SelectAssociatedImages follow, cycle after cycle, the
\* order open picker, type the file name of the cycle, submit the search,
\* observe a result, click the first result's select control, clear the
\* search field (so no select click without an observation since the
\* cycle's search), and the search field is empty when a later cycle begins.
C24_CycleOrder ==
    /\ LET events == CycleEvents
           n == Len(CycleOrder)
       IN \A i \in DOMAIN events :
             /\ (i - 1) \div n < Len(metadata.sub_files)
             /\ CycleEvent(events[i]) = CycleOrder[((i - 1) % n) + 1]
             /\ CycleEvent(events[i]) = "type" =>
                   events[i].arg = metadata.sub_files[((i - 1) \div n) + 1]
    /\ LaterCycleBegins =>
          \A c0 \in StaleContents :
             ContentAfter("search-file-name", c0, Len(trace)) = ""

\* A run completed after two cycles.
C24_Witness ==
    /\ wf = "Completed"
    /\ Len(CycleEvents) = 2 * Len(CycleOrder)

\* --------------------------------------------------------------------- C25
\* The call at index i of the trace is a click that does not bring its
\* element into view by itself: a click through execute_script
\* ("arguments[0].click()").  A native element.click() scrolls the element
\* into view as part of the command and is taken as preceded by its scroll.
BareClickAt(i) == trace[i].op = "js_click"

\* C25 (as stated): every click the workflow issues on a remote element is
\* immediately preceded, in the same step, by scrolling that same element
\* into view.
C25_ClicksScrolledFirst ==
    \A i \in DOMAIN trace :
       BareClickAt(i) =>
          /\ i > 1
          /\ trace[i - 1].op = "scroll"
          /\ trace[i - 1].loc = trace[i].loc
          /\ trace[i - 1].step = trace[i].step

\* --------------------------------------------------------------------- C26
\* The remote fields the workflow types text into.
WrittenFields ==
    {"login_id", "password", "name_ja", "name_kana", "place_ja",
     "entry-description-ja", "search-file-name"}

\* C26 (as stated): every text write into a remote field clears the field
\* right before typing, so that the field's content after the write is the
\* typed text, whatever the field held before.
C26_WritesClearFirst ==
    \A i \in DOMAIN trace :
       (trace[i].op = "send_keys" /\ trace[i].loc \in WrittenFields) =>
          /\ i > 1
          /\ trace[i - 1].op = "clear"
          /\ trace[i - 1].loc = trace[i].loc
          /\ \A c0 \in StaleContents :
                ContentAfter(trace[i].loc, c0, i) = trace[i].arg

\* --------------------------------------------------------------------- C27
\* Both outlines are back in main().
BothReturned == \A v \in {1, 2} : pair.run[v].at = "returned"

Built == build.at = "built"

\* The file names the record has the image-selection steps search for.
SearchedNames ==
    { metadata.sub_files[k] : k \in DOMAIN metadata.sub_files }
       \cup (IF metadata.main_file = None THEN {} ELSE {metadata.main_file})

\* C28 (as stated): every file name main() puts into main_file or sub_files
\* is among the paths UploadImageBatch injects into the upload input
\* (names starting with "compressed_" and ending in .jpg, .jpeg or .png).
C28_SearchedFilesUploaded ==
    Built => SearchedNames \subseteq Paths(dirFiles)

\* --------------------------------------------------------------------- C29
\* A listed file was prepared: selected, and compressed with success.
IsPrepared(f) == f.sel /\ f.fits

\* The name main() gives the prepared copy of a file.
PreparedName(f) == "compressed_" \o f.name

\* The prepared copies among the first n listed files, in file order.
PreparedOf(n) ==
    LET kept == SelectSeq(SubSeq(build.files, 1, n), IsPrepared)
    IN [k \in DOMAIN kept |-> PreparedName(kept[k])]

\* The indices, among the first n listed files, of the selected files
\* ticked as main / of those that were also prepared.
FlaggedSelected(n) ==
    { k \in 1..n : build.files[k].sel /\ build.files[k].main }
FlaggedPrepared(n) ==
    { k \in FlaggedSelected(n) : build.files[k].fits }

\* C29 (as stated): in the record main() builds, sub_files lists in file
\* order exactly the selected images whose compression succeeded, main_file
\* is None or an element of sub_files, and when several selected images are
\* ticked as main the last of them in file order is main_file.
C29_LastFlaggedIsMain ==
    Built =>
       LET n == Len(build.files)
       IN /\ metadata.sub_files = PreparedOf(n)
          /\ \/ metadata.main_file = None
             \/ \E k \in DOMAIN metadata.sub_files :
                   metadata.sub_files[k] = metadata.main_file
          /\ Cardinality(FlaggedSelected(n)) >= 2 =>
                metadata.main_file =
                   PreparedName(build.files[Last(FlaggedSelected(n))])

\* C29 (amended): after every pass of the loop sub_files lists in file
\* order exactly the selected images whose compression succeeded so far,
\* and main_file is the last of them that is ticked as main (None when
\* there is none), hence None or an element of sub_files; the record gets
\* these two values.
C29_LastPreparedFlaggedIsMain ==
    /\ build.at \in {"loop", "built"} =>
          LET n == build.i - 1
          IN /\ build.sub_files = PreparedOf(n)
             /\ build.main_file =
                   IF FlaggedPrepared(n) = {} THEN None
                   ELSE PreparedName(build.files[Last(FlaggedPrepared(n))])
             /\ \/ build.main_file = None
                \/ \E k \in DOMAIN build.sub_files :
                      build.sub_files[k] = build.main_file
    /\ Built =>
          /\ build.i = Len(build.files) + 1
          /\ metadata.sub_files = build.sub_files
          /\ metadata.main_file = build.main_file

\* Two selected images ticked as main, the second of which could not be
\* compressed: the first is the main image.
C29_Witness ==
    /\ Built
    /\ Cardinality(FlaggedSelected(Len(build.files))) >= 2
    /\ Cardinality(FlaggedPrepared(Len(build.files))) = 1
    /\ ~build.files[Len(build.files)].fits
    /\ metadata.main_file # None

\* --------------------------------------------------------------------- C30
\* session_dir holds no prepared image file.
NoPreparedImage == Paths(dirFiles) = {}

\* C30: with no prepared image in session_dir, nothing is injected into the
\* upload input, the wait for the upload list's length never polls in vain
\* and the completion loop's exit condition holds whenever it is evaluated,
\* both with no entry in the list; a run that completes has uploaded
\* nothing.
C30_EmptyUploadPasses ==
    /\ (pc = "upload_count_wait" /\ NoPreparedImage) =>
          /\ trace[Len(trace)] = Call("send_keys", "InputFile", {}, 3)
          /\ polls = 0
          /\ uploadList = <<>>
          /\ Len(uploadList) >= expected_count
    /\ (pc = "upload_loop" /\ NoPreparedImage) =>
          /\ uploadList = <<>>
          /\ UploadDone(uploadList, expected_count)
    /\ (wf = "Completed" /\ NoPreparedImage) => uploadList = <<>>

\* A run completed with no image uploaded: the form was filled and save
\* clicked.
C30_Witness ==
    /\ NoPreparedImage
    /\ wf = "Completed"
    /\ uploadList = <<>>
    /\ Issued("observe", "#files li.media")
    /\ Issued("send_keys", "name_ja")
    /\ Issued("js_click", "save-btn")

\* C31: whenever the submit handler has ended after creating its session
\* directory, the directory has been removed, whatever the Drive upload and
\* the registration did.
C31_SessionDirRemoved ==
    submit.at = "ended" => ~submit.dir

\* Every file of the session directory went up to Drive.
AllUploaded ==
    /\ submit.failed = {}
    /\ submit.uploaded = { submit.listing[i] : i \in DOMAIN submit.listing }

\* C32: in variant 2 the completion message of the Drive upload is shown,
\* and the registration is started, only when every file of the session
\* directory was uploaded.
C32_CompleteOnlyIfAllUploaded ==
    (variant = 2 /\ ("drive_complete" \in submit.said \/ submit.registered))
        => AllUploaded

\* Every encoding made so far was over the budget.
NoneFitted ==
    \A k \in DOMAIN comp.sizes : comp.sizes[k] > comp.max_bytes

\* Every call of img.save gave an encoding.
AllEncoded == Len(comp.sizes) = Len(comp.tried)

\* C33: compress_image makes at most 18 encodings, at the qualities 95, 90,
\* ..., 10 in that order; a returned buffer holds the encoding of the first
\* quality whose size is at most max_bytes; and, the image being encodable,
\* None is returned exactly when every one of the 18 sizes is over max_bytes.
\* An encoder that raises ends the call at once: by the exception in
\* variant 1, with None in variant 2.
C33_FirstFittingQuality ==
    /\ Len(comp.tried) <= 18
    /\ \A k \in DOMAIN comp.tried : comp.tried[k] = 95 - 5 * (k - 1)
    /\ comp.at = "loop" => comp.q = 95 - 5 * Len(comp.tried)
    /\ comp.out = "buf" =>
         LET n == Len(comp.sizes)
         IN /\ AllEncoded
            /\ comp.sizes[n] <= comp.max_bytes
            /\ \A k \in 1..(n - 1) : comp.sizes[k] > comp.max_bytes
            /\ comp.buf = comp.tried[n]
    /\ (comp.at = "returned" /\ AllEncoded) =>
         /\ comp.out \in {"buf", "None"}
         /\ comp.out = "None" <=> (Len(comp.sizes) = 18 /\ NoneFitted)
    /\ ~AllEncoded =>
         /\ comp.at \in {"returned", "raised"}
         /\ comp.out = (IF variant = 1 THEN "raise" ELSE "None")

\* A call that came back with the buffer of a later quality, exactly as
\* large as the budget.
C33_Witness ==
    /\ comp.out = "buf"
    /\ Len(comp.tried) > 1
    /\ comp.sizes[Len(comp.sizes)] = comp.max_bytes

\* The three login keys are held together, with is_admin telling whether
\* the user name is "admin".
AuthConsistent ==
    /\ auth.keys \in {{}, SessionKeys}
    /\ auth.keys = SessionKeys =>
         /\ auth.is_admin <=> (auth.username = "admin")
         /\ auth.username = Strip(auth.typed.u)

\* The stored login of the session state.
AuthStored == <<auth.keys, auth.username, auth.folder_id, auth.is_admin>>

\* What one press of a button may do to the session state.
AuthStep ==
    /\ (auth.keys = {} /\ auth'.keys # {}) =>
         \E k \in DOMAIN auth.users :
            /\ Strip(auth.users[k].username) = Strip(auth'.typed.u)
            /\ Strip(auth.users[k].password) = Strip(auth'.typed.p)
            /\ auth'.folder_id = auth.users[k].folder_id
    /\ auth'.said \in {"failure", "login_error", "raise"} =>
         AuthStored' = AuthStored
    /\ auth'.said = "logout" => auth'.keys = {}

====
